---------------------------- MODULE Spec2Model ----------------------------
(***************************************************************************)
(* A model of SeismicMesh/sizing/mesh_size_function.py: the construction   *)
(* of a MeshSizeFunction object and the stages of its build() method.      *)
(*                                                                         *)
(* Conventions.                                                            *)
(*  - Lengths, velocities, dt, cr_max and grade are integers; the input    *)
(*    sets below are chosen so that every quotient the code forms          *)
(*    (vp/(freq*wl), vp*dt/cr_max, width/nx) is exact.  The Courant test   *)
(*    vp*dt/h > cr_max is decided by cross-multiplication, which is the    *)
(*    same predicate over the reals.                                       *)
(*  - np.inf is the sentinel Inf, larger than every finite value that      *)
(*    occurs; it only ever occurs as the value of hmax.                    *)
(*  - A numpy array is a record [shape, val]: shape is a tuple of 2 or 3   *)
(*    extents and val maps each index tuple (1-based) to a value.          *)
(*  - Python's None is the empty tuple; an optional number n is <<n>>.     *)
(***************************************************************************)
EXTENDS Integers, Sequences, FiniteSets, TLC

\* ----------------------------------------------------------------- bounds
\* Largest number of grid nodes along an axis of a velocity model.
MaxN == 2
\* Largest number of calls of build() on one object.
MaxBuilds == 2
\* Largest iteration cap, besides imax, the limiter is stopped at.
MaxSweeps == 2

\* np.inf (the default of hmax, line 84).
Inf == 1000000000
\* The iteration cap build() passes to hj (line 368).
imax == 10000

\* Python's None: an unset attribute, an argument left out.
None == <<>>

\* F applied to the value of v.  (An operator's argument is evaluated anew
\* at each of its uses; the array operators below take their array this way
\* so that it is computed once.)
Once(v, F(_)) == CHOOSE r \in {F(x) : x \in {v}} : TRUE

\* ------------------------------------------------------------ numpy arrays
Prod(shape) == IF Len(shape) = 2 THEN shape[1] * shape[2]
               ELSE shape[1] * shape[2] * shape[3]

\* The index tuples of an array of the given shape.
Idx(shape) ==
  IF Len(shape) = 2
  THEN {<<i, j>> : i \in 1..shape[1], j \in 1..shape[2]}
  ELSE {<<i, j, k>> : i \in 1..shape[1], j \in 1..shape[2], k \in 1..shape[3]}

\* np.zeros(shape) + c
Full(shape, c) == [shape |-> shape, val |-> [t \in Idx(shape) |-> c]]

\* np.amax
Amax(a) == CHOOSE m \in {a.val[t] : t \in Idx(a.shape)} :
              \A t \in Idx(a.shape) : a.val[t] <= m

\* shape padded on the left with 1s to rank 3 (numpy's broadcasting rule)
Left3(shape) == IF Len(shape) = 3 THEN shape ELSE <<1>> \o shape

\* numpy broadcasting of two shapes: the broadcast shape, or None when the
\* shapes are incompatible (numpy raises ValueError).
Broadcast(s1, s2) ==
  IF Len(s1) = 2 /\ Len(s2) = 2
  THEN IF \A k \in 1..2 : s1[k] = s2[k] \/ s1[k] = 1 \/ s2[k] = 1
       THEN [k \in 1..2 |-> IF s1[k] = 1 THEN s2[k] ELSE s1[k]]
       ELSE None
  ELSE LET a == Left3(s1)
           b == Left3(s2)
       IN  IF \A k \in 1..3 : a[k] = b[k] \/ a[k] = 1 \/ b[k] = 1
           THEN [k \in 1..3 |-> IF a[k] = 1 THEN b[k] ELSE a[k]]
           ELSE None

\* The element of array a that numpy pairs with index t of a broadcast
\* result: trailing axes are aligned, an axis of extent 1 is repeated.
At(a, t) ==
  LET r   == Len(a.shape)
      off == Len(t) - r
      c(k) == IF a.shape[k] = 1 THEN 1 ELSE t[k + off]
  IN  IF r = 2 THEN a.val[<<c(1), c(2)>>] ELSE a.val[<<c(1), c(2), c(3)>>]

\* np.where(a < lo, lo, a) and np.where(a > hi, hi, a)
ClampMin(arr, lo) ==
  Once(arr, LAMBDA a :
    [shape |-> a.shape,
     val |-> [t \in Idx(a.shape) |-> IF a.val[t] < lo THEN lo ELSE a.val[t]]])
ClampMax(arr, hi) ==
  Once(arr, LAMBDA a :
    [shape |-> a.shape,
     val |-> [t \in Idx(a.shape) |-> IF a.val[t] > hi THEN hi ELSE a.val[t]]])

\* a.flatten("F"): the first index varies fastest.
FlatPos(shape, t) ==
  IF Len(shape) = 2 THEN t[1] + shape[1] * (t[2] - 1)
  ELSE t[1] + shape[1] * (t[2] - 1) + shape[1] * shape[2] * (t[3] - 1)
FlattenF(arr) ==
  Once(arr, LAMBDA a :
    [p \in 1..Prod(a.shape) |->
       a.val[CHOOSE t \in Idx(a.shape) : FlatPos(a.shape, t) = p]])
\* np.reshape(list, shape, "F")
ReshapeF(list, shape) ==
  Once(list, LAMBDA l :
    [shape |-> shape, val |-> [t \in Idx(shape) |-> l[FlatPos(shape, t)]]])

\* a.transpose((2, 0, 1)) of a rank-3 array: new axes (old 3, old 1, old 2).
Transpose201(arr) ==
  Once(arr, LAMBDA a :
    [shape |-> <<a.shape[3], a.shape[1], a.shape[2]>>,
     val |-> [t \in Idx(<<a.shape[3], a.shape[1], a.shape[2]>>) |->
                a.val[<<t[2], t[3], t[1]>>]]])


\* One axis of np.pad(a, ..., mode): `before` nodes are added in front of the
\* axis and `after` behind it.  "edge" repeats the border value, "constant"
\* writes mx, "linear_ramp" goes linearly from the border value to mx, which
\* the outermost node takes.
PadAxis(arr, axis, before, after, mode, mx) ==
  Once(arr, LAMBDA a :
    LET n  == a.shape[axis]
        sh == [a.shape EXCEPT ![axis] = n + before + after]
        v(t) ==
          LET c == t[axis] - before
          IN  IF c >= 1 /\ c <= n THEN a.val[[t EXCEPT ![axis] = c]]
              ELSE LET e    == IF c < 1 THEN 1 ELSE n
                       dist == IF c < 1 THEN 1 - c ELSE c - n
                       wid  == IF c < 1 THEN before ELSE after
                       ev   == a.val[[t EXCEPT ![axis] = e]]
                   IN  CASE mode = "edge" -> ev
                         [] mode = "constant" -> mx
                         [] OTHER -> ev + ((mx - ev) * dist) \div wid
    IN  [shape |-> sh, val |-> [t \in Idx(sh) |-> v(t)]])

\* np.pad(hh_m, ((nnx, 0), (nnx, nnx)), mode): numpy pads axis after axis.
Pad2D(a, nnx, mode, mx) ==
  PadAxis(PadAxis(a, 1, nnx, 0, mode, mx), 2, nnx, nnx, mode, mx)

\* np.pad(hh_m, ((nnx, nnx), (nnx, nnx), (nnx, 0)), "edge")
Pad3D(a, nnx) ==
  PadAxis(PadAxis(PadAxis(a, 1, nnx, nnx, "edge", 0),
                  2, nnx, nnx, "edge", 0),
          3, nnx, 0, "edge", 0)

\* np.linspace(lo, hi, num): the vector is kept as its first entry, its last
\* entry and its number of entries (a vector of one entry holds lo alone).
Linspace(lo, hi, num) ==
  [first |-> lo, last |-> IF num = 1 THEN lo ELSE hi, num |-> num]


\* ------------------------------------------------------- gradation limiter
\* limgrad is the compiled gradient limiter hj calls (.cpp, not among the
\* sources); it is modelled from its specification.  The list is a lattice
\* of extents dims = <<n1, n2, n3>>, the first index varying fastest; two
\* nodes are adjacent when they differ by one step along one axis, at
\* distance elen.

\* The lattice neighbours of node p (a position of the list).
Nbrs(dims, p) ==
  LET i == (p - 1) % dims[1]
      j == ((p - 1) \div dims[1]) % dims[2]
      k == (p - 1) \div (dims[1] * dims[2])
  IN  (IF i > 0 THEN {p - 1} ELSE {})
      \cup (IF i < dims[1] - 1 THEN {p + 1} ELSE {})
      \cup (IF j > 0 THEN {p - dims[1]} ELSE {})
      \cup (IF j < dims[2] - 1 THEN {p + dims[1]} ELSE {})
      \cup (IF k > 0 THEN {p - dims[1] * dims[2]} ELSE {})
      \cup (IF k < dims[3] - 1 THEN {p + dims[1] * dims[2]} ELSE {})

\* Visit node p: every neighbour larger than f[p] + grade*elen is reduced to
\* that value.
RelaxNode(dims, bound, list, p) ==
  Once(list, LAMBDA f :
    [q \in DOMAIN f |->
       IF q \in Nbrs(dims, p) /\ f[q] > f[p] + bound THEN f[p] + bound
       ELSE f[q]])

\* One sweep over the nodes p, p+1, ..., in raster order; a node sees the
\* values already reduced in this sweep.
RECURSIVE Sweep(_, _, _, _)
Sweep(dims, bound, f, p) ==
  IF p > Len(f) THEN f
  ELSE Sweep(dims, bound, RelaxNode(dims, bound, f, p), p + 1)

\* Sweeps are repeated until one changes nothing or cap sweeps are done.
RECURSIVE Relax(_, _, _, _, _)
Relax(dims, bound, cap, f, iter) ==
  IF iter >= cap THEN f
  ELSE Once(Sweep(dims, bound, f, 1), LAMBDA g :
         IF g = f THEN f ELSE Relax(dims, bound, cap, g, iter + 1))

limgrad(dims, elen, grade, cap, ffun) ==
  Once(ffun, LAMBDA f : Relax(dims, grade * elen, cap, f, 0))

\* hj (lines 479-499): flatten column-major, limit, reshape column-major.
\* The lattice is (nz, nx, 1) in 2D and (nx, ny, nz) in 3D whatever the shape
\* of fun is; np.reshape raises ValueError (<<>> here) when the sizes differ.
hjDims(s) == IF s.dim = 2 THEN <<s.nz[1], s.nx[1], 1>>
             ELSE <<s.nx[1], s.ny[1], s.nz[1]>>
hjShape(s) == IF s.dim = 2 THEN <<s.nz[1], s.nx[1]>>
              ELSE <<s.nx[1], s.ny[1], s.nz[1]>>
hj(s, fun, elen, cap) ==
  IF Prod(fun.shape) # Prod(hjShape(s)) THEN <<>>
  ELSE ReshapeF(limgrad(hjDims(s), elen, s.grade, cap, FlattenF(fun)),
                hjShape(s))


\* ------------------------------------------------------------------ inputs
\* An optional argument is None or Some(value).
Some(x) == <<x>>
Val(o) == o[1]

\* Velocities a model file holds: a background value and an anomaly.
VelSet == {1000, 2000}
VLow == CHOOSE v \in VelSet : \A w \in VelSet : v <= w

\* The lists of n velocities that are constant, or constant but for an
\* anomaly at the first or at the last node.
FlatFamily(n) ==
  {[p \in 1..n |-> v] : v \in VelSet}
  \cup {[p \in 1..n |-> IF p = q THEN v ELSE VLow] : q \in {1, n}, v \in VelSet}

Box2D == <<-60, 0, 0, 60>>
Box3D == <<-60, 0, 0, 60, 0, 60>>
\* Boxes whose corner is not at the origin.
OffBox2D == <<-90, -30, 30, 90>>
OffBox3D == <<-90, -30, 30, 90, 30, 90>>
\* (domain_ext, padstyle): the pad style is read only when domain_ext > 0.
ExtSet == {<<0, "edge">>, <<30, "edge">>, <<30, "constant">>,
           <<60, "linear_ramp">>}
Options ==
  [hmin : {40}, hmax : {Inf, 80}, wl : {0, 5}, dt : {0, 1}, cr_max : {20},
   grade : {0, 1}, ext : ExtSet]
\* The options with the optional rules switched off.
Plain ==
  [hmin |-> 40, hmax |-> Inf, wl |-> 5, dt |-> 0, cr_max |-> 20, grade |-> 0,
   ext |-> <<0, "edge">>]
Dims == {Some(n) : n \in 1..MaxN}
NoDims == [nx |-> None, ny |-> None, nz |-> None]

MkArgs(b, m, d, o) ==
  [bbox |-> b, hmin |-> o.hmin, model |-> m, units |-> "m-s", wl |-> o.wl,
   freq |-> 5, hmax |-> o.hmax, dt |-> o.dt, cr_max |-> o.cr_max,
   grade |-> o.grade, nx |-> d.nx, ny |-> d.ny, nz |-> d.nz,
   domain_ext |-> o.ext[1], padstyle |-> o.ext[2], endianness |-> "little"]

\* The documented uses: a SEG-Y model of a 2D box (it carries nz and nx
\* itself) and a raw-binary model of a 3D box with its three dimensions,
\* under every combination of the options.
GoodArgs ==
  {MkArgs(Box2D, "vel.segy", NoDims, o) : o \in Options}
  \cup {MkArgs(Box3D, "vel.bin", [nx |-> x, ny |-> y, nz |-> z], o) :
          x \in Dims, y \in Dims, z \in Dims, o \in Options}

\* Other accepted uses, under fewer combinations of the options: boxes away
\* from the origin, an hmax that is not positive, a raw-binary model of a 2D
\* box (of one sheet, ny = 1, or with a dimension missing), a SEG-Y model of
\* a 3D box, a missing dimension of a 3D raw-binary model, the other units,
\* the other byte order.
OtherGoodArgs ==
  {MkArgs(OffBox2D, "vel.segy", NoDims, [Plain EXCEPT !.ext = e]) :
     e \in ExtSet}
  \cup {MkArgs(OffBox3D, "vel.bin", [nx |-> x, ny |-> Some(1), nz |-> Some(1)],
               [Plain EXCEPT !.ext = e]) : x \in Dims, e \in ExtSet}
  \cup {MkArgs(Box2D, "vel.segy", NoDims,
               [Plain EXCEPT !.hmax = h, !.dt = dt, !.ext = e]) :
          h \in {0, -80}, dt \in {0, 1}, e \in {<<0, "edge">>, <<30, "edge">>}}
  \cup {MkArgs(Box2D, "vel.bin", [nx |-> x, ny |-> y, nz |-> z],
               [Plain EXCEPT !.wl = wl, !.dt = dt, !.ext = e]) :
          x \in Dims \cup {None}, y \in {None, Some(1)}, z \in Dims \cup {None},
          wl \in {0, 5}, dt \in {0, 1}, e \in {<<0, "edge">>, <<30, "edge">>}}
  \cup {MkArgs(Box3D, "vel.segy", [NoDims EXCEPT !.ny = y],
               [Plain EXCEPT !.wl = wl]) :
          y \in {None, Some(1)}, wl \in {0, 5}}
  \cup {MkArgs(Box3D, "vel.bin", d, Plain) :
          d \in {[nx |-> None, ny |-> Some(1), nz |-> Some(1)],
                 [nx |-> Some(1), ny |-> None, nz |-> Some(1)],
                 [nx |-> Some(1), ny |-> Some(1), nz |-> None]}}
  \cup {[MkArgs(Box2D, "vel.segy", NoDims, Plain) EXCEPT !.units = "km-s"],
        [MkArgs(Box2D, "vel.segy", NoDims, Plain) EXCEPT !.endianness = "big"]}

\* Arguments with one value that is out of range, unknown or malformed.
BadArgs ==
  LET a == MkArgs(Box2D, "vel.segy", NoDims, Plain)
  IN  {[a EXCEPT !.model = "vel.txt"],
       [a EXCEPT !.bbox = <<-60, 0, 0>>],
       [a EXCEPT !.bbox = <<-60, 0, 0, 60, 0>>],
       [a EXCEPT !.bbox = <<-60, 0, 0, 60, 0, 60, 0>>],
       [a EXCEPT !.hmin = 0],
       [a EXCEPT !.hmin = -40],
       [a EXCEPT !.units = "ft-s"],
       [a EXCEPT !.padstyle = "reflect"],
       [a EXCEPT !.endianness = "middle"],
       [a EXCEPT !.dt = -1],
       [a EXCEPT !.cr_max = -1],
       [a EXCEPT !.grade = -1],
       [a EXCEPT !.domain_ext = -30],
       [a EXCEPT !.nx = Some(0)]}

ArgSet == GoodArgs \cup OtherGoodArgs \cup BadArgs

\* The model files a set of arguments can name.  A SEG-Y file holds nx traces
\* of nz samples; a raw-binary file holds the nx*ny*nz values the arguments
\* announce (one value when a dimension is missing: it is never read).
Files(a) ==
  IF a.model = "vel.bin"
  THEN IF a.nx # None /\ a.ny # None /\ a.nz # None
       THEN {[nz |-> 0, nx |-> 0, data |-> l] :
               l \in FlatFamily(Val(a.nx) * Val(a.ny) * Val(a.nz))}
       ELSE {[nz |-> 0, nx |-> 0, data |-> <<VLow>>]}
  ELSE UNION {{[nz |-> z, nx |-> x, data |-> l] : l \in FlatFamily(z * x)} :
              <<z, x>> \in (1..MaxN) \X (1..MaxN)}

\* ------------------------------------------------------------------- state
VARIABLES
  args,    \* the arguments of MeshSizeFunction(...)
  file,    \* the content of the model file args.model names
  pc,      \* "new", "rejected", "idle", "exited", or the stage build() is at
  err,     \* the exception that ended the last call, "" when there is none
  self,    \* the object's attributes, None before construction
  calls,   \* the number of calls of build() so far
  hh_m,    \* build()'s local sizing grid
  vecs,    \* build()'s local coordinate vectors <<z_vec, x_vec(, y_vec)>>
  stages,  \* history: the stages the current (or last) call has run
  graded,  \* history: the grid hj returned in the current (or last) call
  nnx      \* history: the pad count of the current (or last) call

vars == <<args, file, pc, err, self, calls, hh_m, vecs, stages, graded, nnx>>

\* ------------------------------------------------------------ construction
\* The asserts of the setters __init__ runs (lines 95-118, 142-303).
bbox_ok(value) == Len(value) >= 4 /\ Len(value) <= 6
hmin_ok(value) == value > 0
dim_ok(value) == value = 2 \/ value = 3
units_ok(value) == value = "m-s" \/ value = "km-s"
n_ok(value) == value = None \/ Val(value) > 0
endianness_ok(value) == value = "big" \/ value = "little"
padstyle_ok(value) ==
  value = "edge" \/ value = "constant" \/ value = "linear_ramp"

\* int(len(self.bbox) / 2)
DimOf(bbox) == Len(bbox) \div 2

Accepts(a) ==
  /\ bbox_ok(a.bbox)
  /\ dim_ok(DimOf(a.bbox))
  /\ units_ok(a.units)
  /\ hmin_ok(a.hmin)
  /\ a.dt >= 0
  /\ a.cr_max >= 0
  /\ a.grade >= 0
  /\ n_ok(a.nx) /\ n_ok(a.ny) /\ n_ok(a.nz)
  /\ a.domain_ext >= 0
  /\ endianness_ok(a.endianness)
  /\ padstyle_ok(a.padstyle)

\* The attributes __init__ sets (lines 95-118).
NewObject(a) ==
  [bbox |-> a.bbox, dim |-> DimOf(a.bbox),
   width |-> a.bbox[4] - a.bbox[3], depth |-> a.bbox[2] - a.bbox[1],
   length |-> IF DimOf(a.bbox) = 3 THEN a.bbox[6] - a.bbox[5] ELSE None,
   spacing |-> None, model |-> a.model, units |-> a.units, hmin |-> a.hmin,
   hmax |-> a.hmax, wl |-> a.wl, freq |-> a.freq, dt |-> a.dt,
   cr_max |-> a.cr_max, grade |-> a.grade, fh |-> None, fd |-> None,
   nx |-> a.nx, ny |-> a.ny, nz |-> a.nz, domain_ext |-> a.domain_ext,
   endianness |-> a.endianness, padstyle |-> a.padstyle, vp |-> None]

Init ==
  /\ args \in ArgSet
  /\ file \in Files(args)
  /\ pc = "new"
  /\ err = ""
  /\ self = None
  /\ calls = 0
  /\ hh_m = None
  /\ vecs = None
  /\ stages = <<>>
  /\ graded = None
  /\ nnx = 0

\* MeshSizeFunction(...): an assert that fails leaves no object.
MeshSizeFunction_init ==
  /\ pc = "new"
  /\ IF Accepts(args)
     THEN pc' = "idle" /\ self' = NewObject(args) /\ err' = ""
     ELSE pc' = "rejected" /\ self' = None /\ err' = "AssertionError"
  /\ UNCHANGED <<args, file, calls, hh_m, vecs, stages, graded, nnx>>


\* ----------------------------------------------------- the stages of build()
\* vp of a SEG-Y file (lines 577-591): trace j fills column j, then np.flipud
\* reverses the rows.
SegyVp(f) ==
  [shape |-> <<f.nz, f.nx>>,
   val |-> [t \in Idx(<<f.nz, f.nx>>) |->
              f.data[(t[2] - 1) * f.nz + (f.nz + 1 - t[1])]]]

\* lines 609-611: km-s velocities are converted to m-s.
ToMetres(units, vp) ==
  IF units = "km-s"
  THEN [shape |-> vp.shape, val |-> [t \in Idx(vp.shape) |-> vp.val[t] * 1000]]
  ELSE vp

\* __ReadVelocityModel (lines 571-613): the object with nz, nx, spacing and vp
\* set, or the error that ends the call.  The raw-binary branch reads nx, ny
\* and nz through their getters, each of which asserts that it is not None.
ReadVelocityModel(s, f) ==
  CASE s.model = "vel.segy" ->
         [err |-> "",
          self |-> [s EXCEPT !.nz = Some(f.nz), !.nx = Some(f.nx),
                             !.spacing = s.width \div f.nx,
                             !.vp = ToMetres(s.units, SegyVp(f))]]
    [] s.model = "vel.bin" ->
         IF s.nx = None THEN [err |-> "AssertionError: nx", self |-> s]
         ELSE IF s.ny = None THEN [err |-> "AssertionError: ny", self |-> s]
         ELSE IF s.nz = None THEN [err |-> "AssertionError: nz", self |-> s]
         ELSE [err |-> "",
               self |-> [s EXCEPT
                  !.spacing = s.width \div Val(s.nx),
                  !.vp = ToMetres(s.units,
                           ReshapeF(f.data,
                                    <<Val(s.nx), Val(s.ny), Val(s.nz)>>))]]
    [] OTHER -> [err |-> "quit", self |-> s]

\* lines 349-364: initialise to hmin, wavelength rule, clamp to hmin and hmax.
SizingField(s) ==
  LET zeros == IF s.dim = 2 THEN Full(<<Val(s.nz), Val(s.nx)>>, s.hmin)
               ELSE Full(<<Val(s.nz), Val(s.nx), Val(s.ny)>>, s.hmin)
      wave  == IF s.wl > 0
               THEN [shape |-> s.vp.shape,
                     val |-> [t \in Idx(s.vp.shape) |->
                                s.vp.val[t] \div (s.freq * s.wl)]]
               ELSE zeros
      low   == ClampMin(wave, s.hmin)
  IN  IF s.hmax < Inf THEN ClampMax(low, s.hmax) ELSE low

\* lines 366-368: the limiter runs when grade > 0; None when hj raises.
Grade(s, hh) ==
  IF s.grade > 0 THEN hj(s, hh, s.width \div Val(s.nx), imax) ELSE hh

\* (vp*dt)/h > cr_max in IEEE arithmetic, for vp*dt > 0 and cr_max >= 0:
\* h = 0 gives +inf, h < 0 a negative quotient.
CourantExceeds(v, dt, h, cr_max) ==
  IF h = 0 THEN TRUE
  ELSE IF h < 0 THEN FALSE
  ELSE v * dt > cr_max * h

\* lines 370-374: where the Courant number exceeds cr_max, h is replaced by
\* vp*dt/cr_max.  vp and hh_m are broadcast; None when numpy cannot.
CFL(s, hh) ==
  IF s.dt > 0
  THEN LET sh == Broadcast(s.vp.shape, hh.shape)
       IN  IF sh = None THEN None
           ELSE [shape |-> sh,
                 val |-> [t \in Idx(sh) |->
                    IF CourantExceeds(At(s.vp, t), s.dt, At(hh, t), s.cr_max)
                    THEN (At(s.vp, t) * s.dt) \div s.cr_max
                    ELSE At(hh, t)]]
  ELSE hh

\* A variant that extends the depth axis on both sides.
CreateDomainExtension_BothSides(s) ==
  IF s.domain_ext > 0
  THEN LET b == s.bbox
           w == s.domain_ext
           bbox_new == IF s.dim = 2
                       THEN <<b[1] - w, b[2] + w, b[3] - w, b[4] + w>>
                       ELSE <<b[1] - w, b[2] + w, b[3] - w, b[4] + w,
                              b[5] - w, b[6] + w>>
       IN  [s EXCEPT !.bbox = bbox_new,
                     !.width = bbox_new[4] - bbox_new[3],
                     !.depth = bbox_new[2] - bbox_new[1],
                     !.length = IF s.dim = 3 THEN bbox_new[6] - bbox_new[5]
                                ELSE @]
  ELSE s

\* __CreateDomainExtension (lines 695-723)
CreateDomainExtension(s) ==
  IF s.domain_ext > 0
  THEN LET b == s.bbox
           w == s.domain_ext
           bbox_new == IF s.dim = 2
                       THEN <<b[1] - w, b[2], b[3] - w, b[4] + w>>
                       ELSE <<b[1] - w, b[2], b[3] - w, b[4] + w,
                              b[5] - w, b[6] + w>>
       IN  [s EXCEPT !.bbox = bbox_new,
                     !.width = bbox_new[4] - bbox_new[3],
                     !.depth = bbox_new[2] - bbox_new[1],
                     !.length = IF s.dim = 3 THEN bbox_new[6] - bbox_new[5]
                                ELSE @]
  ELSE s

\* int(_domain_ext / _spacing) (lines 628, 667)
PadCount(s) == s.domain_ext \div s.spacing

\* __EditMeshSizeFunction (lines 659-693); None when np.pad raises because
\* the pad widths do not fit the rank of the array.
EditMeshSizeFunction(s, hh) ==
  IF s.dim = 2
  THEN IF Len(hh.shape) # 2 THEN None
       ELSE Once(Amax(hh), LAMBDA mx :
              ClampMax(Pad2D(hh, PadCount(s), s.padstyle, mx), s.hmax))
  ELSE IF s.padstyle = "edge"
       THEN IF Len(hh.shape) # 3 THEN None
            ELSE ClampMax(Pad3D(hh, PadCount(s)), s.hmax)
       ELSE ClampMax(hh, s.hmax)

\* __CreateDomainVectors (lines 615-644)
CreateDomainVectors(s) ==
  LET p    == PadCount(s)
      ext  == s.domain_ext > 0
      n_z  == IF ext THEN Val(s.nz) + p ELSE Val(s.nz)
      n_x  == IF ext THEN Val(s.nx) + 2 * p ELSE Val(s.nx)
      zvec == Linspace(-s.depth, 0, n_z)
      xvec == Linspace(0 - s.domain_ext, s.width - s.domain_ext, n_x)
  IN  IF s.dim = 2 THEN <<zvec, xvec>>
      ELSE LET n_y == IF ext THEN Val(s.ny) + 2 * p ELSE Val(s.ny)
           IN  <<zvec, xvec,
                 Linspace(0 - s.domain_ext, s.length - s.domain_ext, n_y)>>

\* A variant that lets zero through.
AllPositive_NonNegative(hh) == \A t \in Idx(hh.shape) : hh.val[t] >= 0

\* line 385: assert np.all(hh_m > 0.0)
AllPositive(hh) == \A t \in Idx(hh.shape) : hh.val[t] > 0

\* RegularGridInterpolator(points, values, bounds_error=False,
\* fill_value=None) (lines 387-395): it raises ValueError (None here) when
\* there are more point vectors than axes, when a vector is not strictly
\* ascending, or when a vector's length is not the extent of its axis.
RegularGridInterpolator(points, values) ==
  IF /\ Len(points) <= Len(values.shape)
     /\ \A i \in 1..Len(points) :
          /\ points[i].num = values.shape[i]
          /\ points[i].num >= 2 => points[i].first < points[i].last
  THEN [points |-> points, values |-> values]
  ELSE None

\* lines 386-395: the grid the interpolant is given; None when transpose
\* raises because the array has not three axes.
InterpolantGrid(s, hh) ==
  IF s.dim = 2 THEN hh
  ELSE IF Len(hh.shape) = 3 THEN Transpose201(hh) ELSE None

\* lines 399-413: the signed distance function of the box.
SignedDistance(s) ==
  IF s.dim = 2 THEN [shape |-> "drectangle", bbox |-> SubSeq(s.bbox, 1, 4)]
  ELSE [shape |-> "dblock", bbox |-> SubSeq(s.bbox, 1, 6)]


\* ----------------------------------------------------------------- actions
\* An exception leaves build(): its locals are gone, the object stays as it
\* is at that point.
Raise(e) ==
  /\ pc' = "idle"
  /\ err' = e
  /\ hh_m' = None
  /\ vecs' = None

\* build(), lines 327-347: read the model, then read nz, nx and (3D) ny
\* through their getters.  quit() ends the program.
build_ReadVelocityModel ==
  /\ pc = "idle"
  /\ calls < MaxBuilds
  /\ calls' = calls + 1
  /\ stages' = <<>>
  /\ graded' = None
  /\ nnx' = 0
  /\ \E r \in {ReadVelocityModel(self, file)} :
         IF r.err = "quit"
         THEN /\ pc' = "exited" /\ err' = "SystemExit"
              /\ UNCHANGED <<self, hh_m, vecs>>
         ELSE IF r.err # ""
         THEN Raise(r.err) /\ UNCHANGED self
         ELSE IF r.self.dim = 3 /\ r.self.ny = None
         THEN Raise("AssertionError: ny") /\ self' = r.self
         ELSE /\ pc' = "field" /\ err' = "" /\ self' = r.self
              /\ UNCHANGED <<hh_m, vecs>>
  /\ UNCHANGED <<args, file>>

\* lines 349-364
build_SizingField ==
  /\ pc = "field"
  /\ hh_m' = SizingField(self)
  /\ stages' = Append(stages, "field")
  /\ pc' = "grade"
  /\ UNCHANGED <<args, file, err, self, calls, vecs, graded, nnx>>

\* lines 365-368
build_Grade ==
  /\ pc = "grade"
  /\ \E g \in {Grade(self, hh_m)} :
         IF g = None
         THEN Raise("ValueError") /\ UNCHANGED <<stages, graded>>
         ELSE /\ hh_m' = g
              /\ pc' = "cfl"
              /\ stages' = IF self.grade > 0 THEN Append(stages, "grade")
                           ELSE stages
              /\ graded' = IF self.grade > 0 THEN g ELSE graded
              /\ UNCHANGED <<err, vecs>>
  /\ UNCHANGED <<args, file, self, calls, nnx>>

\* lines 369-374
build_CFL ==
  /\ pc = "cfl"
  /\ \E h \in {CFL(self, hh_m)} :
         IF h = None
         THEN Raise("ValueError") /\ UNCHANGED stages
         ELSE /\ hh_m' = h
              /\ pc' = "extend"
              /\ stages' = IF self.dt > 0 THEN Append(stages, "cfl")
                           ELSE stages
              /\ UNCHANGED <<err, vecs>>
  /\ UNCHANGED <<args, file, self, calls, graded, nnx>>

\* lines 375-378: the box is extended, then the grid is padded.
build_DomainExtension ==
  /\ pc = "extend"
  /\ IF self.domain_ext > 0
     THEN \E s \in {CreateDomainExtension(self)} :
          \E h \in {EditMeshSizeFunction(s, hh_m)} :
              /\ self' = s
              /\ nnx' = PadCount(s)
              /\ stages' = Append(stages, "extend")
              /\ IF h = None
                 THEN Raise("ValueError")
                 ELSE hh_m' = h /\ pc' = "vectors" /\ UNCHANGED <<err, vecs>>
     ELSE /\ pc' = "vectors"
          /\ UNCHANGED <<self, nnx, stages, hh_m, err, vecs>>
  /\ UNCHANGED <<args, file, calls, graded>>

\* lines 380-384
build_CreateDomainVectors ==
  /\ pc = "vectors"
  /\ vecs' = CreateDomainVectors(self)
  /\ stages' = Append(stages, "vectors")
  /\ pc' = "interpolant"
  /\ UNCHANGED <<args, file, err, self, calls, hh_m, graded, nnx>>

\* lines 385-397: the positivity assert, then the interpolant, then fh.
build_Interpolant ==
  /\ pc = "interpolant"
  /\ IF ~AllPositive(hh_m)
     THEN Raise("AssertionError: positive") /\ UNCHANGED <<self, stages>>
     ELSE \E g \in {InterpolantGrid(self, hh_m)} :
          \E interpolant \in {IF g = None THEN None
                               ELSE RegularGridInterpolator(vecs, g)} :
              IF interpolant = None
              THEN Raise("ValueError") /\ UNCHANGED <<self, stages>>
              ELSE /\ self' = [self EXCEPT !.fh = interpolant]
                   /\ hh_m' = g
                   /\ stages' = Append(stages, "interpolant")
                   /\ pc' = "distance"
                   /\ UNCHANGED <<err, vecs>>
  /\ UNCHANGED <<args, file, calls, graded, nnx>>

\* lines 399-414: fd is set and build() returns.
build_SignedDistance ==
  /\ pc = "distance"
  /\ self' = [self EXCEPT !.fd = SignedDistance(self)]
  /\ pc' = "idle"
  /\ hh_m' = None
  /\ vecs' = None
  /\ UNCHANGED <<args, file, err, calls, stages, graded, nnx>>

Next ==
  \/ MeshSizeFunction_init
  \/ build_ReadVelocityModel
  \/ build_SizingField
  \/ build_Grade
  \/ build_CFL
  \/ build_DomainExtension
  \/ build_CreateDomainVectors
  \/ build_Interpolant
  \/ build_SignedDistance

Spec == Init /\ [][Next]_vars


\* -------------------------------------------------------------- properties
\* An object exists (the constructor has accepted the arguments).
Constructed == pc \notin {"new", "rejected"}

\* build() has just constructed the interpolant of the current call.
JustBuilt == pc = "distance"

\* The documented uses, in which a node of the velocity grid is a node of
\* the sizing grid: a SEG-Y model of a 2D box, a raw-binary model of a 3D box.
Documented ==
  \/ self.dim = 2 /\ self.model = "vel.segy"
  \/ self.dim = 3 /\ self.model = "vel.bin"

\* The node of the interpolant's grid that holds node t of the velocity grid:
\* the grid is padded by nnx in front of every axis it is padded along, and
\* a 3D grid (x, y, z) is handed over as (z, x, y).
GridNode(t) ==
  IF self.dim = 2 THEN <<t[1] + nnx, t[2] + nnx>>
  ELSE <<t[3] + nnx, t[1] + nnx, t[2] + nnx>>

\* Two index tuples are lattice-adjacent: one step along one axis.
Adjacent(t, u) ==
  \E k \in 1..Len(t) :
    /\ (t[k] - u[k] = 1 \/ u[k] - t[k] = 1)
    /\ \A m \in 1..Len(t) : m # k => t[m] = u[m]

\* Every pair of adjacent nodes of array a differs by at most bound.
IsGraded(a, bound) ==
  \A t \in Idx(a.shape) : \A u \in Idx(a.shape) :
    Adjacent(t, u) => a.val[t] - a.val[u] <= bound

\* C1: every node of the grid the interpolant is built from is >= hmin and,
\* when hmax is finite, <= hmax, for every valid option set (hmax >= hmin).
C1_SizeBounds ==
  (JustBuilt /\ self.hmax >= self.hmin) =>
    \A t \in Idx(self.fh.values.shape) :
      /\ self.fh.values.val[t] >= self.hmin
      /\ self.hmax < Inf => self.fh.values.val[t] <= self.hmax

\* C2: when dt > 0, at every node of the velocity grid the final sizing value
\* h satisfies velocity*dt/h <= cr_max.
C2_CFL ==
  (JustBuilt /\ Documented /\ self.dt > 0) =>
    \A t \in Idx(self.vp.shape) :
      ~CourantExceeds(self.vp.val[t], self.dt,
                      self.fh.values.val[GridNode(t)], self.cr_max)

\* C3: when grade > 0, the limiter has converged and the domain is not
\* extended, adjacent nodes of the final grid differ by at most grade*d.
C3_Gradation ==
  (/\ JustBuilt
   /\ self.grade > 0
   /\ self.domain_ext = 0
   /\ IsGraded(graded, self.grade * (self.width \div Val(self.nx)))) =>
    IsGraded(self.fh.values, self.grade * (self.width \div Val(self.nx)))

\* The box b extended by w: the low depth bound is lowered, the high depth
\* bound is kept, every lateral axis grows by w on both sides.
Extended(b, dim, w) ==
  IF dim = 2 THEN <<b[1] - w, b[2], b[3] - w, b[4] + w>>
  ELSE <<b[1] - w, b[2], b[3] - w, b[4] + w, b[5] - w, b[6] + w>>

\* C4, the extension step: with w > 0 the box becomes Extended(box), width,
\* depth and length are those of the new box; with w = 0 nothing changes.
ExtensionStep ==
  pc = "extend" =>
    IF self.domain_ext > 0
    THEN /\ self'.bbox = Extended(self.bbox, self.dim, self.domain_ext)
         /\ self'.width = self'.bbox[4] - self'.bbox[3]
         /\ self'.depth = self'.bbox[2] - self'.bbox[1]
         /\ self.dim = 3 => self'.length = self'.bbox[6] - self'.bbox[5]
         /\ self'.width = self.width + 2 * self.domain_ext
         /\ self'.depth = self.depth + self.domain_ext
    ELSE /\ self'.bbox = self.bbox
         /\ self'.width = self.width
         /\ self'.depth = self.depth
         /\ self'.length = self.length

\* C4, the boundary function: the box is not touched after the extension
\* step, and fd is built on its 2*dim bounds as they are then.
BoundaryStep ==
  /\ pc \in {"vectors", "interpolant", "distance"} => self'.bbox = self.bbox
  /\ pc = "distance" =>
       /\ self'.fd.bbox = SubSeq(self.bbox, 1, 2 * self.dim)
       /\ Len(args.bbox) = 2 * self.dim => self'.fd.bbox = self.bbox
       /\ "extend" \in {stages[i] : i \in 1..Len(stages)}
            <=> self.domain_ext > 0

\* C4: extending the domain by w lowers only the low depth bound and moves
\* each lateral axis outward by w on both sides; width, depth and length
\* follow; fd uses the extended box; w = 0 leaves the box unchanged.
C4_Extension == [][ExtensionStep /\ BoundaryStep]_vars

\* C4 witness: a 2D box extended by 30 and its boundary function.
C4_Witness ==
  /\ pc = "idle"
  /\ calls = 1
  /\ args.bbox = <<-60, 0, 0, 60>>
  /\ args.domain_ext = 30
  /\ self.fd # None
  /\ self.fd.bbox = <<-90, 0, -30, 90>>

\* C5: construction fails for a box of neither 4 nor 6 values, hmin <= 0, an
\* unknown units tag, pad style or endianness; an accepted object has dim 2
\* exactly for 4 values and dim 3 exactly for 6.
C5_FailFast ==
  pc # "new" =>
    /\ (\/ Len(args.bbox) \notin {4, 6}
        \/ args.hmin <= 0
        \/ args.units \notin {"m-s", "km-s"}
        \/ args.padstyle \notin {"edge", "constant", "linear_ramp"}
        \/ args.endianness \notin {"big", "little"}) => pc = "rejected"
    /\ pc # "rejected" =>
         /\ self.dim = 2 <=> Len(args.bbox) = 4
         /\ self.dim = 3 <=> Len(args.bbox) = 6

\* C6: for a 3D input with domain_ext > 0 and a pad style other than edge,
\* build() does not go on past the extension step.
C6_PadStyleAbort ==
  ~(/\ pc \in {"vectors", "interpolant", "distance"}
    /\ self.dim = 3
    /\ self.domain_ext > 0
    /\ self.padstyle # "edge")

\* C7: fh and fd are set only if every value of the final grid is strictly
\* positive; when a value is <= 0, build() fails and leaves fh and fd unset.
C7_Positivity ==
  Constructed =>
    /\ self.fh # None =>
         \A t \in Idx(self.fh.values.shape) : self.fh.values.val[t] > 0
    /\ self.fd # None => self.fh # None
    /\ (pc = "interpolant" /\ \E t \in Idx(hh_m.shape) : hh_m.val[t] <= 0) =>
         self.fh = None /\ self.fd = None
    /\ err = "AssertionError: positive" => self.fh = None /\ self.fd = None

\* C7 witness: a call that ended on the positivity assert (hmax <= 0).
C7_Witness ==
  /\ pc = "idle"
  /\ err = "AssertionError: positive"
  /\ self.hmax <= 0
  /\ self.fh = None

\* C8: with a 2D box, a raw-binary model and nx, nz given, reading the model
\* does not fail for lack of ny.
C8_NyOnly3D ==
  ~(/\ Constructed
    /\ self.dim = 2
    /\ self.model = "vel.bin"
    /\ self.nx # None /\ self.nz # None /\ self.ny = None
    /\ err = "AssertionError: ny")

\* C9: the raw field, CFL rule included, is built before the limiter runs;
\* the limiter runs before the extension, the extension before the vectors
\* and the interpolant.
Rank(stage) ==
  CASE stage = "field" -> 1
    [] stage = "cfl" -> 2
    [] stage = "grade" -> 3
    [] stage = "extend" -> 4
    [] stage = "vectors" -> 5
    [] OTHER -> 6
C9_StageOrder ==
  \A i \in 1..Len(stages) : \A j \in 1..Len(stages) :
    i < j => Rank(stages[i]) < Rank(stages[j])

\* C10: when build() constructs the interpolant (a documented use, a
\* strictly positive grid), each coordinate vector has
\* as many nodes as the sizing grid has along its axis: nz + p in depth,
\* nx + 2p (and ny + 2p) laterally, p the pad count.
C10_VectorSizes ==
  (/\ pc = "interpolant"
   /\ Documented
   /\ \A t \in Idx(hh_m.shape) : hh_m.val[t] > 0
   /\ self.dim = 3 => Len(hh_m.shape) = 3) =>
    LET g == IF self.dim = 2 THEN hh_m.shape
             ELSE <<hh_m.shape[3], hh_m.shape[1], hh_m.shape[2]>>
        p == IF self.domain_ext > 0 THEN self.domain_ext \div self.spacing
             ELSE 0
    IN  /\ Len(g) = Len(vecs)
        /\ \A i \in 1..Len(vecs) : vecs[i].num = g[i]
        /\ g[1] = Val(self.nz) + p
        /\ g[2] = Val(self.nx) + 2 * p
        /\ self.dim = 3 => g[3] = Val(self.ny) + 2 * p

\* The box has one low and one high bound per axis.
WholeBox == Len(self.bbox) = 2 * self.dim

\* C11: in a first call of build(), for every box and every domain_ext, the
\* first and last entries of each coordinate vector (of two nodes or more)
\* given to the interpolant are the low and high bound of the final box on
\* that axis.
C11_VectorEnds ==
  (pc = "interpolant" /\ calls = 1 /\ Documented /\ WholeBox) =>
    \A i \in 1..Len(vecs) :
      vecs[i].num >= 2 =>
        /\ vecs[i].first = self.bbox[2 * i - 1]
        /\ vecs[i].last = self.bbox[2 * i]

\* The geometry one run of build() gives an object made from arguments a
\* whose model has n_x nodes in x: the box extended once by domain_ext, its
\* width and depth, the spacing width/n_x of the box as given, and the pad
\* count int(domain_ext/spacing).
OnceGeometry(a, n_x) ==
  LET w  == a.domain_ext
      b  == IF w > 0 THEN Extended(a.bbox, DimOf(a.bbox), w) ELSE a.bbox
      sp == (a.bbox[4] - a.bbox[3]) \div n_x
  IN  [bbox |-> b, width |-> b[4] - b[3], depth |-> b[2] - b[1],
       spacing |-> sp, nnx |-> IF w > 0 THEN w \div sp ELSE 0]

\* The geometry the object has now.
Geometry ==
  [bbox |-> self.bbox, width |-> self.width, depth |-> self.depth,
   spacing |-> self.spacing, nnx |-> nnx]

\* build() has returned normally for the n-th time.
Returned(n) == pc = "idle" /\ calls = n /\ err = "" /\ self.fd # None

\* C12: with domain_ext > 0 (and a pad style the dimension supports), after
\* build() has returned once or twice, the box, width, depth, spacing and
\* pad count are those of a single run.
C12_BuildTwice ==
  (/\ Returned(1) \/ Returned(2)
   /\ self.domain_ext > 0
   /\ self.dim = 3 => self.padstyle = "edge"
   /\ WholeBox) =>
    Geometry = OnceGeometry(args, Val(self.nx))

\* Grid out has the shape of grid inp, and every node of out is at most its
\* value in inp, at least some value of inp (so at least the minimum of
\* inp), and at least hmin when every value of inp is.
Limited(inp, out, hmin) ==
  /\ out.shape = inp.shape
  /\ \A t \in Idx(inp.shape) :
       /\ out.val[t] <= inp.val[t]
       /\ \E u \in Idx(inp.shape) : out.val[t] >= inp.val[u]
       /\ (\A u \in Idx(inp.shape) : inp.val[u] >= hmin) => out.val[t] >= hmin

\* C13: when build() is about to limit its field, the limiter stopped after
\* any number of sweeps (0..MaxSweeps, or run to imax) returns a grid of the
\* shape of the field whose nodes are at most their input value and at least
\* the minimum of the field (hence at least hmin).
C13_LimiterMonotone ==
  (pc = "grade" /\ self.grade > 0 /\ Documented) =>
    \A cap \in (0..MaxSweeps) \cup {imax} :
      \A out \in {hj(self, hh_m, self.width \div Val(self.nx), cap)} :
        out # <<>> => Limited(hh_m, out, self.hmin)

=============================================================================
